---- MODULE Spec2Model ----
(***************************************************************************)
(* A model of the serverless-prune-plugin (class Prune): the selectors     *)
(* that pick the versions to delete, the listers, the deletion loops, the  *)
(* function sweep and the layer sweep, and the entry points that start     *)
(* them, run against a remote Lambda service holding function versions,    *)
(* aliases and layer versions.                                             *)
(***************************************************************************)
EXTENDS Integers, Sequences, FiniteSets, TLC

(***************************************************************************)
(* Bounds of the model.                                                    *)
(***************************************************************************)
\* number of published versions a deployed resource may hold
MaxVersions == 2
\* number of the oldest published version still present; the published
\* versions are FirstVersion .. FirstVersion + MaxVersions - 1, chosen so
\* that the version ids span two digit lengths ("9", "10")
FirstVersion == 9
\* largest keep value given on the command line or in serverless.yml
MaxKeep == 1
\* number of items the remote service returns in one page of a listing
PageSize == 1
\* number of requests the remote service may fail in one behaviour
MaxFailures == 1
\* number of published versions in the listings the selectors are applied to
\* on their own
MaxListed == 3

(***************************************************************************)
(* JavaScript values: undefined, numbers, strings (sequences of            *)
(* characters) and booleans.                                               *)
(***************************************************************************)
Undefined == [t |-> "undefined", n |-> 0, s |-> <<>>, b |-> FALSE]
Num(n) == [t |-> "number", n |-> n, s |-> <<>>, b |-> FALSE]
Str(s) == [t |-> "string", n |-> 0, s |-> s, b |-> FALSE]
Bool(b) == [t |-> "boolean", n |-> 0, s |-> <<>>, b |-> b]

\* the value parseInt gives for a string that does not start with a number
NaN == -1000000

DigitChars == <<"0", "1", "2", "3", "4", "5", "6", "7", "8", "9">>

IsDigit(c) == \E d \in 1..10 : DigitChars[d] = c

DigitVal(c) == (CHOOSE d \in 1..10 : DigitChars[d] = c) - 1

\* String(n) for an integer n >= 0
RECURSIVE toString(_)
toString(n) ==
  IF n < 10 THEN <<DigitChars[n + 1]>>
  ELSE toString(n \div 10) \o <<DigitChars[(n % 10) + 1]>>

\* the value of the longest prefix of s made of digits, continuing from acc
RECURSIVE ParseDigits(_, _)
ParseDigits(s, acc) ==
  IF s = <<>> \/ ~IsDigit(Head(s)) THEN acc
  ELSE ParseDigits(Tail(s), acc * 10 + DigitVal(Head(s)))

\* parseInt(s) for a string s: an optional sign, then the leading digits
parseInt(s) ==
  IF s # <<>> /\ Head(s) = "-"
  THEN IF Len(s) > 1 /\ IsDigit(s[2]) THEN 0 - ParseDigits(Tail(s), 0) ELSE NaN
  ELSE IF s # <<>> /\ IsDigit(Head(s)) THEN ParseDigits(s, 0) ELSE NaN

\* parseInt(v) for any value: the argument is first converted to a string
parseIntValue(v) ==
  CASE v.t = "number" -> v.n
    [] v.t = "string" -> parseInt(v.s)
    [] OTHER -> NaN

\* Number(s) for a string: every character must be a digit ("" is 0)
ToNumber(s) ==
  IF s = <<>> THEN 0
  ELSE IF \A i \in 1..Len(s) : IsDigit(s[i]) THEN ParseDigits(s, 0)
  ELSE IF Head(s) = "-" /\ Len(s) > 1 /\ \A i \in 2..Len(s) : IsDigit(s[i])
       THEN 0 - ParseDigits(Tail(s), 0)
  ELSE NaN

\* ToIntegerOrInfinity(v), the conversion Array.prototype.slice applies to its
\* argument: undefined and NaN become 0
ToIntegerOrInfinity(v) ==
  LET x == CASE v.t = "number" -> v.n
             [] v.t = "string" -> ToNumber(v.s)
             [] v.t = "boolean" -> IF v.b THEN 1 ELSE 0
             [] OTHER -> NaN
  IN IF x = NaN THEN 0 ELSE x

\* the truthiness the operator || tests
Truthy(v) ==
  CASE v.t = "undefined" -> FALSE
    [] v.t = "number" -> v.n # 0 /\ v.n # NaN
    [] v.t = "string" -> v.s # <<>>
    [] OTHER -> v.b

\* a || b
Or(a, b) == IF Truthy(a) THEN a ELSE b

\* the id of the mutable version of a function
LATEST == <<"$", "L", "A", "T", "E", "S", "T">>

(***************************************************************************)
(* Array operations.                                                       *)
(***************************************************************************)
\* a slice that starts one element late
sliceNext(arr, start) ==
  LET k == ToIntegerOrInfinity(start)
  IN SubSeq(arr, k + 2, Len(arr))

\* arr.slice(start)
slice(arr, start) ==
  LET k == ToIntegerOrInfinity(start)
      from == IF k < 0 THEN (IF Len(arr) + k < 0 THEN 0 ELSE Len(arr) + k)
              ELSE (IF k > Len(arr) THEN Len(arr) ELSE k)
  IN SubSeq(arr, from + 1, Len(arr))

\* arr.indexOf(v) === -1
NotIn(arr, v) == \A i \in 1..Len(arr) : arr[i] # v

\* a < b for two strings of digits compared as strings, character by character
LexLess(a, b) ==
  \E i \in 1..Len(b) :
    /\ \A j \in 1..(i - 1) : j <= Len(a) /\ a[j] = b[j]
    /\ \/ i > Len(a)
       \/ i <= Len(a) /\ DigitVal(a[i]) < DigitVal(b[i])

\* a comparator that orders the ids as strings, not as numbers
compareLexicographic(a, b) == IF a = b THEN 0 ELSE IF LexLess(b, a) THEN -1 ELSE 1

\* the comparator the selectors sort with: descending by parseInt; a
\* comparison with NaN is false
compareVersions(a, b) ==
  LET x == parseInt(a)
      y == parseInt(b)
  IN IF x # NaN /\ y # NaN /\ x = y THEN 0
     ELSE IF x # NaN /\ y # NaN /\ x > y THEN -1
     ELSE 1

\* x put into the sorted array arr, after the elements that do not sort after it
RECURSIVE insertSorted(_, _)
insertSorted(arr, x) ==
  IF arr = <<>> THEN <<x>>
  ELSE IF compareVersions(x, Head(arr)) < 0 THEN <<x>> \o arr
  ELSE <<Head(arr)>> \o insertSorted(Tail(arr), x)

\* arr.sort(compareVersions): a stable sort
RECURSIVE sort(_)
sort(arr) ==
  IF arr = <<>> THEN <<>>
  ELSE insertSorted(sort(SubSeq(arr, 1, Len(arr) - 1)), arr[Len(arr)])

\* arr.map(f)
Map(arr, f(_)) == [i \in 1..Len(arr) |-> f(arr[i])]

(***************************************************************************)
(* The service of serverless.yml: its functions and layers, by key, and    *)
(* the names they are deployed under.                                      *)
(***************************************************************************)
\* serverless.service.getAllFunctions()
getAllFunctions == <<"FunctionA", "FunctionB">>

\* serverless.service.getFunction(key).name
getFunctionName(key) ==
  CASE key = "FunctionA" -> "service-FunctionA"
    [] key = "FunctionB" -> "service-FunctionB"

\* serverless.service.getAllLayers()
getAllLayers == <<"LayerA", "LayerB">>

\* serverless.service.getLayer(key).name || key
getLayerName(key) ==
  CASE key = "LayerA" -> "layer-LayerA"
    [] key = "LayerB" -> "layer-LayerB"

FunctionNames == {getFunctionName(getAllFunctions[i]) : i \in 1..Len(getAllFunctions)}
LayerNames == {getLayerName(getAllLayers[i]) : i \in 1..Len(getAllLayers)}
Resources == FunctionNames \cup LayerNames

\* the two sweeps: pruneFunctions and pruneLayers
Sweeps == {"functions", "layers"}

VARIABLES
  options,       \* this.options: the command line options
  custom,        \* serverless.service.custom.prune, as written in serverless.yml
  pluginCustom,  \* this.pluginCustom: what loadCustom made of custom
  remote,        \* the remote service: per resource, its versions and aliases
  sweep,         \* per sweep, the position and the data of its promise chain
  hook,          \* the promise the entry point returned
  faults,        \* the requests the remote service has failed, with the errors
  selVersions,   \* a version listing given to a selector on its own
  selAliases,    \* an alias listing given to a selector on its own
  selResult,     \* what the selector returned for them
  selDone        \* which selector has been applied

vars == <<options, custom, pluginCustom, remote, sweep, hook, faults,
          selVersions, selAliases, selResult, selDone>>

(***************************************************************************)
(* Configuration.                                                          *)
(***************************************************************************)
\* loadCustom(custom): custom is custom.prune, Undefined when there is none
loadCustom(c) ==
  [number |->
     IF c.present /\ c.number.t # "undefined" /\ parseIntValue(c.number) # NaN
     THEN Num(parseIntValue(c.number)) ELSE Undefined,
   automatic |->
     IF c.present /\ c.automatic.t = "boolean" THEN c.automatic ELSE Undefined,
   includeLayers |->
     IF c.present /\ c.includeLayers.t = "boolean" THEN c.includeLayers ELSE Undefined]

\* getNumber()
getNumber == Or(options.number, pluginCustom.number)

(***************************************************************************)
(* The selectors.                                                          *)
(***************************************************************************)
\* a selector that forgets to skip the aliased versions
selectIgnoringAliases(versions, aliases) ==
  LET ids == Map(versions, LAMBDA f : f.Version)
      notLatest == SelectSeq(ids, LAMBDA v : v # LATEST)
  IN slice(sort(notLatest), getNumber)

\* a selector that forgets to skip $LATEST
selectIncludingLatest(versions, aliases) ==
  LET aliasedVersion == Map(aliases, LAMBDA a : a.FunctionVersion)
      ids == Map(versions, LAMBDA f : f.Version)
      notAliased == SelectSeq(ids, LAMBDA v : NotIn(aliasedVersion, v))
  IN slice(sort(notAliased), getNumber)

\* selectPruneVersionsForFunction(versions, aliases)
selectPruneVersionsForFunction(versions, aliases) ==
  LET aliasedVersion == Map(aliases, LAMBDA a : a.FunctionVersion)
      ids == Map(versions, LAMBDA f : f.Version)
      notLatest == SelectSeq(ids, LAMBDA v : v # LATEST)
      notAliased == SelectSeq(notLatest, LAMBDA v : NotIn(aliasedVersion, v))
  IN slice(sort(notAliased), getNumber)

\* a layer selector that keeps the lowest-numbered versions
selectKeepingLowest(versions) ==
  LET sorted == sort(Map(versions, LAMBDA f : f.Version))
  IN slice([i \in 1..Len(sorted) |-> sorted[Len(sorted) + 1 - i]], getNumber)

\* selectPruneVersionsForLayer(versions)
selectPruneVersionsForLayer(versions) ==
  slice(sort(Map(versions, LAMBDA f : f.Version)), getNumber)

(***************************************************************************)
(* Errors of provider.request.  An error carries a providerError (with a   *)
(* statusCode and a message) or none; a message is a sequence of parts.    *)
(***************************************************************************)
UnableToDelete == "Lambda was unable to delete"
ReplicatedFunction == "because it is a replicated function."

Error(hasProviderError, statusCode, message) ==
  [providerError |-> hasProviderError, statusCode |-> statusCode, message |-> message]

NoError == Error(FALSE, 0, <<>>)

ReplicatedMessage == <<UnableToDelete, "arn:aws:lambda:function:1", ReplicatedFunction,
                       "Please see our documentation">>

\* the answer of the remote service for a resource that is not deployed
NotFound == Error(TRUE, 404, <<"Function not found">>)

\* the failures of a listing request
ListErrors ==
  { NotFound,
    Error(TRUE, 500, <<"Service unavailable">>),
    Error(FALSE, 404, <<"connect ETIMEDOUT">>) }

\* the rejection of the deletion of a replicated Lambda@Edge function
ReplicatedRejection == Error(TRUE, 400, ReplicatedMessage)

\* the failures of a deletion request
DeleteErrors ==
  { ReplicatedRejection,
    Error(TRUE, 400, <<"Some Error">>),
    Error(TRUE, 403, ReplicatedMessage),
    Error(FALSE, 400, ReplicatedMessage),
    Error(TRUE, 400, <<UnableToDelete, "arn:aws:lambda:function:1">>),
    Error(TRUE, 400, <<"Some Error", ReplicatedFunction>>) }

\* message.startsWith(part)
startsWith(message, part) == message # <<>> /\ message[1] = part

\* message.indexOf(part) > -1
contains(message, part) == \E i \in 1..Len(message) : message[i] = part

\* a test that reads the status and the message of the error itself, not of
\* its providerError
isReplicatedRejectionOfError(e) ==
  /\ ~e.providerError
  /\ e.statusCode = 400
  /\ startsWith(e.message, UnableToDelete)
  /\ contains(e.message, ReplicatedFunction)

\* a test that tolerates every failure with status 400
isAnyBadRequest(e) == e.providerError /\ e.statusCode = 400

\* the test of deleteVersionsForFunction's catch: the failure is ignored
isReplicatedRejection(e) ==
  /\ e.providerError
  /\ e.statusCode = 400
  /\ startsWith(e.message, UnableToDelete)
  /\ contains(e.message, ReplicatedFunction)

\* the test of the listers' catch: the resource is not deployed
isNotDeployed(e) == e.providerError /\ e.statusCode = 404

(***************************************************************************)
(* The remote service.                                                     *)
(***************************************************************************)
\* the ids of the published versions first .. first + count - 1, ascending
RECURSIVE PublishedIds(_, _)
PublishedIds(first, count) ==
  IF count = 0 THEN <<>> ELSE <<toString(first)>> \o PublishedIds(first + 1, count - 1)

\* the sequence of the elements of the set S of version ids, in the order of all
SeqOf(S, all) == SelectSeq(all, LAMBDA v : v \in S)

\* a resource of the remote service no request has read yet
Unobserved == [observed |-> FALSE, deployed |-> FALSE, versions |-> <<>>, aliases |-> <<>>]

\* the states of a function: not deployed, or $LATEST, some published versions
\* and aliases on some of them
FunctionStates ==
  {[observed |-> TRUE, deployed |-> FALSE, versions |-> <<>>, aliases |-> <<>>]} \cup
  UNION {
    {[observed |-> TRUE, deployed |-> TRUE,
      versions |-> <<LATEST>> \o PublishedIds(FirstVersion, n),
      aliases |-> SeqOf(A, PublishedIds(FirstVersion, n))] :
        A \in SUBSET {PublishedIds(FirstVersion, n)[i] : i \in 1..n}} :
    n \in 0..MaxVersions }

\* the states of a layer: not deployed, or some published versions, newest first
LayerStates ==
  {[observed |-> TRUE, deployed |-> FALSE, versions |-> <<>>, aliases |-> <<>>]} \cup
  {[observed |-> TRUE, deployed |-> TRUE,
    versions |-> [i \in 1..n |-> PublishedIds(FirstVersion, n)[n + 1 - i]],
    aliases |-> <<>>] : n \in 1..MaxVersions }

\* a request of provider.request('Lambda', action, params)
Request(action, name, marker, version) ==
  [action |-> action, name |-> name, marker |-> marker, version |-> version]

\* the states the remote service may hold a resource in: the one already
\* read, or any state when no request has read it yet
States(name) ==
  IF remote[name].observed THEN {remote[name]}
  ELSE IF name \in FunctionNames THEN FunctionStates ELSE LayerStates

\* the items a listing request reads of a resource in state st
Listed(action, st) ==
  IF action = "listAliases"
  THEN Map(st.aliases, LAMBDA v : [FunctionVersion |-> v])
  ELSE Map(st.versions, LAMBDA v : [Version |-> v])

\* the page the remote service answers a listing request with
Page(action, st, marker) ==
  LET all == Listed(action, st)
      last == IF marker + PageSize < Len(all) THEN marker + PageSize ELSE Len(all)
  IN [items |-> SubSeq(all, marker + 1, last),
      NextMarker |-> IF last < Len(all) THEN last ELSE 0]

\* the remote service once version id of a resource is deleted
Deleted(name, id) ==
  [remote EXCEPT ![name].versions = SelectSeq(@, LAMBDA v : v # id)]

(***************************************************************************)
(* The listers.  A chain is the promise of one makeLambdaRequest call:     *)
(* pending while a page is requested, then fulfilled or rejected.          *)
(***************************************************************************)
IdleChain == [st |-> "idle", marker |-> 0, results |-> <<>>, error |-> NoError]

\* makeLambdaRequest(action, params, responseMapping): the first page is requested
makeLambdaRequest == [st |-> "pending", marker |-> 0, results |-> <<>>, error |-> NoError]

\* a handler that takes the first page for the whole listing
responseHandlerFirstPage(c, response) ==
  [st |-> "fulfilled", marker |-> 0, results |-> c.results \o response.items,
   error |-> NoError]

\* responseHandler(response) of makeLambdaRequest
responseHandler(c, response) ==
  LET results == c.results \o response.items
  IN IF response.NextMarker # 0
     THEN [st |-> "pending", marker |-> response.NextMarker, results |-> results,
           error |-> NoError]
     ELSE [st |-> "fulfilled", marker |-> 0, results |-> results, error |-> NoError]

\* a catch that yields the pages listed so far on a not-found
listerCatchKeepingPages(c, e) ==
  IF isNotDeployed(e)
  THEN [st |-> "fulfilled", marker |-> 0, results |-> c.results, error |-> NoError]
  ELSE [st |-> "rejected", marker |-> 0, results |-> <<>>, error |-> e]

\* a catch that recovers from every failure of the listing
listerCatchAll(c, e) ==
  [st |-> "fulfilled", marker |-> 0, results |-> <<>>, error |-> NoError]

\* a catch that gives up on every failure of the listing
listerCatchRethrow(c, e) ==
  [st |-> "rejected", marker |-> 0, results |-> <<>>, error |-> e]

\* the catch of listVersionForFunction, listAliasesForFunction and
\* listVersionsForLayer
listerCatch(c, e) ==
  IF isNotDeployed(e)
  THEN [st |-> "fulfilled", marker |-> 0, results |-> <<>>, error |-> NoError]
  ELSE [st |-> "rejected", marker |-> 0, results |-> <<>>, error |-> e]

\* the action a chain of a sweep requests
ListAction(kind, k) ==
  IF kind = "layers" THEN "listLayerVersions"
  ELSE IF k = "versions" THEN "listVersionsByFunction" ELSE "listAliases"

\* the action a sweep deletes with
DeleteAction(kind) == IF kind = "layers" THEN "deleteLayerVersion" ELSE "deleteFunction"

(***************************************************************************)
(* The sweeps: pruneFunctions and pruneLayers.  The record of a sweep      *)
(* holds the number of times it was called, the position of its promise   *)
(* chain (mapSeries over the names, then each over the results, then the   *)
(* deletion loop), the requests it has issued, the selections it has       *)
(* computed and the lines it has written for the resources.                *)
(***************************************************************************)
IdleSweep ==
  [calls |-> 0, phase |-> "idle", names |-> <<>>, listIdx |-> 0,
   versions |-> IdleChain, aliases |-> IdleChain,
   results |-> <<>>, eachIdx |-> 0, deletionVersions |-> <<>>, delIdx |-> 0,
   reason |-> NoError, selections |-> <<>>, issued |-> <<>>, log |-> <<>>]

\* a mapSeries callback that requests the listing of the next name as well
StartListNextToo(w, kind, i) ==
  LET name == w.names[i]
      first == IF kind = "layers"
               THEN <<Request("listLayerVersions", name, 0, <<>>)>>
               ELSE <<Request("listVersionsByFunction", name, 0, <<>>),
                      Request("listAliases", name, 0, <<>>)>>
      next == IF i < Len(w.names)
              THEN <<Request(IF kind = "layers" THEN "listLayerVersions"
                             ELSE "listVersionsByFunction", w.names[i + 1], 0, <<>>)>>
              ELSE <<>>
  IN [w EXCEPT !.phase = "listing", !.listIdx = i,
               !.versions = makeLambdaRequest,
               !.aliases = IF kind = "layers" THEN [IdleChain EXCEPT !.st = "fulfilled"]
                           ELSE makeLambdaRequest,
               !.issued = (@ \o first) \o next]


\* the callback of mapSeries for the i-th name: the listers are called, each
\* requesting its first page
StartList(w, kind, i) ==
  LET name == w.names[i]
  IN IF kind = "layers"
     THEN [w EXCEPT !.phase = "listing", !.listIdx = i,
                    !.versions = makeLambdaRequest,
                    !.aliases = [IdleChain EXCEPT !.st = "fulfilled"],
                    !.issued = Append(@, Request("listLayerVersions", name, 0, <<>>))]
     ELSE [w EXCEPT !.phase = "listing", !.listIdx = i,
                    !.versions = makeLambdaRequest,
                    !.aliases = makeLambdaRequest,
                    !.issued = @ \o <<Request("listVersionsByFunction", name, 0, <<>>),
                                      Request("listAliases", name, 0, <<>>)>>]

\* a selection that takes every listed version in a dry run
SelectAllWhenDry(kind, r) ==
  IF options.dryRun THEN Map(r.versions, LAMBDA f : f.Version)
  ELSE IF kind = "layers" THEN selectPruneVersionsForLayer(r.versions)
  ELSE selectPruneVersionsForFunction(r.versions, r.aliases)

\* the versions a sweep selects for a listed resource
Select(kind, r) ==
  IF kind = "layers" THEN selectPruneVersionsForLayer(r.versions)
  ELSE selectPruneVersionsForFunction(r.versions, r.aliases)

\* an each callback that deletes in a dry run too
RECURSIVE EachIgnoringDryRun(_, _, _)
EachIgnoringDryRun(w, kind, i) ==
  IF i > Len(w.results) THEN [w EXCEPT !.phase = "resolved", !.eachIdx = i]
  ELSE
    LET r == w.results[i]
        deletionVersions == Select(kind, r)
        w1 == [w EXCEPT !.selections =
                 Append(@, [name |-> r.name, versions |-> r.versions,
                            aliases |-> r.aliases, candidates |-> deletionVersions])]
    IN IF r.versions = <<>> THEN EachIgnoringDryRun(w, kind, i + 1)
       ELSE IF deletionVersions = <<>> THEN EachIgnoringDryRun(w1, kind, i + 1)
       ELSE [w1 EXCEPT !.phase = "deleting", !.eachIdx = i,
                       !.deletionVersions = deletionVersions, !.delIdx = 1,
                       !.issued = Append(@, Request(DeleteAction(kind), r.name, 0,
                                                    deletionVersions[1]))]

\* the line updateProgress writes for a resource with versions to delete
updateProgress(name) == [line |-> "progress", name |-> name, version |-> <<>>]

\* printPruningCandidates(name, deletionCandidates): a line for each version
printPruningCandidates(name, deletionCandidates) ==
  Map(deletionCandidates, LAMBDA v : [line |-> "candidate", name |-> name, version |-> v])

\* an each callback that selects for a resource with no version too
RECURSIVE EachNoShortCircuit(_, _, _)
EachNoShortCircuit(w, kind, i) ==
  IF i > Len(w.results) THEN [w EXCEPT !.phase = "resolved", !.eachIdx = i]
  ELSE
    LET r == w.results[i]
        deletionVersions == Select(kind, r)
        w1 == [w EXCEPT !.selections =
                 Append(@, [name |-> r.name, versions |-> r.versions,
                            aliases |-> r.aliases, candidates |-> deletionVersions]),
                        !.log = IF deletionVersions # <<>>
                                THEN Append(@, updateProgress(r.name)) ELSE @]
    IN IF options.dryRun
       THEN EachNoShortCircuit([w1 EXCEPT !.log = @ \o printPruningCandidates(r.name,
                                                                               deletionVersions)],
                               kind, i + 1)
       ELSE IF deletionVersions = <<>> THEN EachNoShortCircuit(w1, kind, i + 1)
       ELSE [w1 EXCEPT !.phase = "deleting", !.eachIdx = i,
                       !.deletionVersions = deletionVersions, !.delIdx = 1,
                       !.issued = Append(@, Request(DeleteAction(kind), r.name, 0,
                                                    deletionVersions[1]))]

\* an each callback that requests the first deletion of every later resource
\* together with that of the resource it is at
RECURSIVE EachNextToo(_, _, _)
EachNextToo(w, kind, i) ==
  IF i > Len(w.results) THEN [w EXCEPT !.phase = "resolved", !.eachIdx = i]
  ELSE
    LET r == w.results[i]
        deletionVersions == Select(kind, r)
        w1 == [w EXCEPT !.selections =
                 Append(@, [name |-> r.name, versions |-> r.versions,
                            aliases |-> r.aliases, candidates |-> deletionVersions])]
        later == SelectSeq(SubSeq(w.results, i + 1, Len(w.results)),
                           LAMBDA q : q.versions # <<>> /\ Select(kind, q) # <<>>)
    IN IF r.versions = <<>> THEN EachNextToo(w, kind, i + 1)
       ELSE IF options.dryRun THEN EachNextToo(w1, kind, i + 1)
       ELSE IF deletionVersions = <<>> THEN EachNextToo(w1, kind, i + 1)
       ELSE [w1 EXCEPT !.phase = "deleting", !.eachIdx = i,
                       !.deletionVersions = deletionVersions, !.delIdx = 1,
                       !.issued = Append(@, Request(DeleteAction(kind), r.name, 0,
                                                    deletionVersions[1]))
                                    \o Map(later, LAMBDA q : Request(DeleteAction(kind), q.name, 0,
                                                                      Select(kind, q)[1]))]

\* an each callback that requests all the deletions of a resource at once
RECURSIVE EachAllAtOnce(_, _, _)
EachAllAtOnce(w, kind, i) ==
  IF i > Len(w.results) THEN [w EXCEPT !.phase = "resolved", !.eachIdx = i]
  ELSE
    LET r == w.results[i]
        deletionVersions == Select(kind, r)
        w1 == [w EXCEPT !.selections =
                 Append(@, [name |-> r.name, versions |-> r.versions,
                            aliases |-> r.aliases, candidates |-> deletionVersions])]
    IN IF r.versions = <<>> THEN EachAllAtOnce(w, kind, i + 1)
       ELSE IF options.dryRun THEN EachAllAtOnce(w1, kind, i + 1)
       ELSE IF deletionVersions = <<>> THEN EachAllAtOnce(w1, kind, i + 1)
       ELSE [w1 EXCEPT !.phase = "deleting", !.eachIdx = i,
                       !.deletionVersions = deletionVersions, !.delIdx = 1,
                       !.issued = @ \o Map(deletionVersions,
                                            LAMBDA v : Request(DeleteAction(kind), r.name, 0, v))]

\* the each callback of a sweep, from the i-th result on: a resource with no
\* version is skipped, the versions to delete are selected, and unless this is
\* a dry run the first of them is requested to be deleted; the sweep resolves
\* after the last result
RECURSIVE Each(_, _, _)
Each(w, kind, i) ==
  IF i > Len(w.results) THEN [w EXCEPT !.phase = "resolved", !.eachIdx = i]
  ELSE
    LET r == w.results[i]
        deletionVersions == Select(kind, r)
        w1 == [w EXCEPT !.selections =
                 Append(@, [name |-> r.name, versions |-> r.versions,
                            aliases |-> r.aliases, candidates |-> deletionVersions]),
                        !.log = IF deletionVersions # <<>>
                                THEN Append(@, updateProgress(r.name)) ELSE @]
    IN IF r.versions = <<>> THEN Each(w, kind, i + 1)
       ELSE IF options.dryRun
       THEN Each([w1 EXCEPT !.log = @ \o printPruningCandidates(r.name, deletionVersions)],
                 kind, i + 1)
       ELSE IF deletionVersions = <<>> THEN Each(w1, kind, i + 1)
       ELSE [w1 EXCEPT !.phase = "deleting", !.eachIdx = i,
                       !.deletionVersions = deletionVersions, !.delIdx = 1,
                       !.issued = Append(@, Request(DeleteAction(kind), r.name, 0,
                                                    deletionVersions[1]))]

\* a join that starts the each phase as soon as one name is listed
JoinDeletingAtOnce(w, kind) ==
  IF w.phase # "listing" THEN w
  ELSE IF w.versions.st = "rejected"
  THEN [w EXCEPT !.phase = "rejected", !.reason = w.versions.error]
  ELSE IF w.aliases.st = "rejected"
  THEN [w EXCEPT !.phase = "rejected", !.reason = w.aliases.error]
  ELSE IF w.versions.st = "fulfilled" /\ w.aliases.st = "fulfilled"
  THEN Each([w EXCEPT !.results =
               Append(@, [name |-> w.names[w.listIdx],
                          versions |-> w.versions.results,
                          aliases |-> w.aliases.results])], kind, 1)
  ELSE w


\* the join of the listers of one name and the step of mapSeries after it: a
\* rejected lister rejects the sweep; once all are fulfilled the result is
\* kept and the next name is listed, or the each phase starts
Join(w, kind) ==
  IF w.phase # "listing" THEN w
  ELSE IF w.versions.st = "rejected"
  THEN [w EXCEPT !.phase = "rejected", !.reason = w.versions.error]
  ELSE IF w.aliases.st = "rejected"
  THEN [w EXCEPT !.phase = "rejected", !.reason = w.aliases.error]
  ELSE IF w.versions.st = "fulfilled" /\ w.aliases.st = "fulfilled"
  THEN LET w1 == [w EXCEPT !.results =
                    Append(@, [name |-> w.names[w.listIdx],
                               versions |-> w.versions.results,
                               aliases |-> w.aliases.results])]
       IN IF w.listIdx < Len(w.names)
          THEN StartList(w1, kind, w.listIdx + 1)
          ELSE Each(w1, kind, 1)
  ELSE w

\* a sweep whose chain k has become c: a pending chain has requested its next
\* page
WithChain(w, kind, k, c) ==
  LET w1 == IF k = "versions" THEN [w EXCEPT !.versions = c] ELSE [w EXCEPT !.aliases = c]
      \* the name the chain lists: the one mapSeries was at when it started
      name == w.names[w.listIdx]
  IN Join(IF c.st = "pending"
          THEN [w1 EXCEPT !.issued = Append(@, Request(ListAction(kind, k), name,
                                                      c.marker, <<>>))]
          ELSE w1, kind)

\* targets that ignore the function and the layer given in the options
TargetsAll(kind) ==
  IF kind = "layers" THEN Map(getAllLayers, getLayerName)
  ELSE Map(getAllFunctions, getFunctionName)

\* the names a sweep targets
Targets(kind) ==
  IF kind = "layers"
  THEN IF options.layer # "" THEN <<getLayerName(options.layer)>>
       ELSE Map(getAllLayers, getLayerName)
  ELSE IF options.function # "" THEN <<getFunctionName(options.function)>>
       ELSE Map(getAllFunctions, getFunctionName)

\* pruneFunctions() and pruneLayers(): the sweep is started
Prune(kind) ==
  LET w == [IdleSweep EXCEPT !.names = Targets(kind), !.calls = sweep[kind].calls + 1]
  IN IF w.names = <<>> THEN Each(w, kind, 1) ELSE StartList(w, kind, 1)

\* a deletion loop that names the first resource of the sweep in its requests
AfterDeleteFirstName(w, kind) ==
  IF w.delIdx < Len(w.deletionVersions)
  THEN [w EXCEPT !.delIdx = @ + 1,
          !.issued = Append(@, Request(DeleteAction(kind), w.results[1].name, 0,
                                       w.deletionVersions[w.delIdx + 1]))]
  ELSE Each(w, kind, w.eachIdx + 1)

\* a deletion loop that deletes the first version only
AfterDeleteFirstOnly(w, kind) == Each(w, kind, w.eachIdx + 1)

\* a deletion loop that gives up when the other sweep has rejected
AfterDeleteUnlessOtherRejected(w, kind) ==
  IF \E s \in Sweeps \ {kind} : sweep[s].phase = "rejected"
  THEN [w EXCEPT !.phase = "rejected"]
  ELSE
    IF w.delIdx < Len(w.deletionVersions)
    THEN [w EXCEPT !.delIdx = @ + 1,
            !.issued = Append(@, Request(DeleteAction(kind), w.results[w.eachIdx].name, 0,
                                         w.deletionVersions[w.delIdx + 1]))]
    ELSE Each(w, kind, w.eachIdx + 1)

\* the deletion loop of deleteVersionsForFunction and deleteVersionsForLayer
\* after a deletion is done or its failure is ignored: the next version is
\* requested to be deleted, or the each phase goes on with the next result
AfterDelete(w, kind) ==
  IF w.delIdx < Len(w.deletionVersions)
  THEN [w EXCEPT !.delIdx = @ + 1,
          !.issued = Append(@, Request(DeleteAction(kind), w.results[w.eachIdx].name, 0,
                                       w.deletionVersions[w.delIdx + 1]))]
  ELSE Each(w, kind, w.eachIdx + 1)

\* a catch that requests the failed deletion once more
AfterDeleteFailureRetry(w, kind, e) ==
  [w EXCEPT !.issued = Append(@, Request(DeleteAction(kind), w.results[w.eachIdx].name, 0,
                                         w.deletionVersions[w.delIdx]))]

\* a catch that ignores the rejection of a replicated function in the deletion
\* loop of layers too
AfterDeleteFailureAnyKind(w, kind, e) ==
  IF isReplicatedRejection(e)
  THEN AfterDelete(w, kind)
  ELSE [w EXCEPT !.phase = "rejected", !.reason = e]

\* the catch of the deletion loops: deleteVersionsForFunction ignores the
\* rejection of a replicated function, every other failure rejects the sweep
AfterDeleteFailure(w, kind, e) ==
  IF kind = "functions" /\ isReplicatedRejection(e)
  THEN AfterDelete(w, kind)
  ELSE [w EXCEPT !.phase = "rejected", !.reason = e]

(***************************************************************************)
(* The entry points.  The record of the hook holds the entry point that    *)
(* was called, the sweeps it started, the state of the promise it          *)
(* returned, and how the run before this one ended, if there was one (and  *)
(* what the sweeps of that run issued and selected, when it was a dry run  *)
(* that is now run for real).                                              *)
(***************************************************************************)
NoDry == [issued |-> <<>>, selections |-> <<>>]

NoHook ==
  [entry |-> "none", kind |-> "none", state |-> "none", reason |-> NoError,
   previous |-> [entry |-> "none", state |-> "none", dry |-> [s \in Sweeps |-> NoDry]]]

\* the sweeps an entry point of the given kind has started
Started(kind) == IF kind = "all" THEN Sweeps ELSE {kind} \cap Sweeps

\* the promise an entry point returned, given the sweeps as they are now: that
\* of its one sweep, or BbPromise.all of the two, rejected with the first
\* rejection and resolved once both are resolved
Settle(h, sw) ==
  IF h.state # "pending" THEN h
  ELSE IF \E s \in Started(h.kind) : sw[s].phase = "rejected"
  THEN [h EXCEPT !.state = "rejected",
          !.reason = sw[CHOOSE s \in Started(h.kind) : sw[s].phase = "rejected"].reason]
  ELSE IF \A s \in Started(h.kind) : sw[s].phase = "resolved"
  THEN [h EXCEPT !.state = "resolved"]
  ELSE h

\* a dispatch that runs the function sweep in every invocation, and the layer
\* sweep too when includeLayers or a layer is given
cliPruneKindLayerToo ==
  IF options.includeLayers \/ options.layer # "" THEN "all" ELSE "functions"

\* a dispatch that ignores includeLayers
cliPruneKindNoInclude ==
  IF options.layer # "" /\ options.function = "" THEN "layers" ELSE "functions"

\* the sweeps cliPrune starts
cliPruneKind ==
  IF options.includeLayers THEN "all"
  ELSE IF options.layer # "" /\ options.function = "" THEN "layers"
  ELSE "functions"

\* cliPrune(), the hook of the prune command
cliPrune ==
  /\ hook.kind = "none"
  /\ LET kind == cliPruneKind
         sw == [s \in Sweeps |-> IF s \in Started(kind) THEN Prune(s) ELSE sweep[s]]
     IN /\ sweep' = sw
        /\ hook' = Settle([hook EXCEPT !.entry = "cliPrune", !.kind = kind,
                                        !.state = "pending"], sw)
  /\ UNCHANGED <<options, custom, pluginCustom, remote, faults,
                 selVersions, selAliases, selResult, selDone>>

\* pruneLayers() called on its own
pruneLayers ==
  /\ hook.kind = "none"
  /\ LET sw == [sweep EXCEPT !["layers"] = Prune("layers")]
     IN /\ sweep' = sw
        /\ hook' = Settle([hook EXCEPT !.entry = "pruneLayers", !.kind = "layers",
                                        !.state = "pending"], sw)
  /\ UNCHANGED <<options, custom, pluginCustom, remote, faults,
                 selVersions, selAliases, selResult, selDone>>

\* a gate that takes a missing number for 0
postDeployKindDefaultZero ==
  IF options.noDeploy = Bool(TRUE) THEN "nothing"
  ELSE IF Truthy(loadCustom(custom).automatic)
  THEN IF Truthy(loadCustom(custom).includeLayers) THEN "all" ELSE "functions"
  ELSE "nothing"

\* a gate that takes the includeLayers flag from the command line options
postDeployKindOptionLayers ==
  LET c == loadCustom(custom)
  IN IF options.noDeploy = Bool(TRUE) THEN "nothing"
     ELSE IF Truthy(c.automatic) /\ c.number.t # "undefined" /\ c.number.n >= 0
     THEN IF options.includeLayers THEN "all" ELSE "functions"
     ELSE "nothing"

\* the sweeps postDeploy starts: none (with noDeploy, or when pruning is not
\* automatic or no number >= 0 is configured), the function sweep, or both
postDeployKind ==
  LET c == loadCustom(custom)
  IN IF options.noDeploy = Bool(TRUE) THEN "nothing"
     ELSE IF Truthy(c.automatic) /\ c.number.t # "undefined" /\ c.number.n >= 0
     THEN IF Truthy(c.includeLayers) THEN "all" ELSE "functions"
     ELSE "nothing"

\* postDeploy(), the hook after a deployment
postDeploy ==
  /\ hook.kind = "none"
  /\ pluginCustom' = loadCustom(custom)
  /\ LET kind == postDeployKind
         sw == [s \in Sweeps |-> IF s \in Started(kind) THEN Prune(s) ELSE sweep[s]]
     IN /\ sweep' = sw
        /\ hook' = Settle([hook EXCEPT !.entry = "postDeploy", !.kind = kind,
                                        !.state = "pending"], sw)
  /\ UNCHANGED <<options, custom, remote, faults,
                 selVersions, selAliases, selResult, selDone>>

(***************************************************************************)
(* The answers of the remote service.                                      *)
(***************************************************************************)
Chain(w, k) == IF k = "versions" THEN w.versions ELSE w.aliases

\* the remote service answers the listing request of chain k of sweep s: a
\* page of the listing, or not-found when the resource is not deployed
ListRespond(s, k) ==
  LET w == sweep[s]
      c == Chain(w, k)
      name == w.names[w.listIdx]
  IN /\ w.phase # "idle"
     /\ c.st = "pending"
     /\ \E st \in States(name) :
          LET c2 == IF st.deployed
                    THEN responseHandler(c, Page(ListAction(s, k), st, c.marker))
                    ELSE listerCatch(c, NotFound)
          IN /\ remote' = [remote EXCEPT ![name] = st]
             /\ sweep' = [sweep EXCEPT ![s] = WithChain(w, s, k, c2)]
     /\ hook' = Settle(hook, sweep')
     /\ UNCHANGED <<options, custom, pluginCustom, faults,
                    selVersions, selAliases, selResult, selDone>>

\* the listing request of chain k of sweep s fails with e
ListFail(s, k, e) ==
  LET w == sweep[s]
      c == Chain(w, k)
  IN /\ w.phase # "idle"
     /\ c.st = "pending"
     /\ Len(faults) < MaxFailures
     /\ faults' = Append(faults, [sweep |-> s, error |-> e,
                                  request |-> Request(ListAction(s, k), w.names[w.listIdx],
                                                      c.marker, <<>>)])
     /\ sweep' = [sweep EXCEPT ![s] = WithChain(w, s, k, listerCatch(c, e))]
     /\ hook' = Settle(hook, sweep')
     /\ UNCHANGED <<options, custom, pluginCustom, remote,
                    selVersions, selAliases, selResult, selDone>>

\* the remote service deletes the version sweep s asked it to delete
DeleteRespond(s) ==
  LET w == sweep[s]
  IN /\ w.phase = "deleting"
     /\ remote' = Deleted(w.results[w.eachIdx].name, w.deletionVersions[w.delIdx])
     /\ sweep' = [sweep EXCEPT ![s] = AfterDelete(w, s)]
     /\ hook' = Settle(hook, sweep')
     /\ UNCHANGED <<options, custom, pluginCustom, faults,
                    selVersions, selAliases, selResult, selDone>>

\* the deletion request of sweep s fails with e
DeleteFail(s, e) ==
  LET w == sweep[s]
  IN /\ w.phase = "deleting"
     /\ Len(faults) < MaxFailures
     /\ faults' = Append(faults, [sweep |-> s, error |-> e,
                                  request |-> Request(DeleteAction(s), w.results[w.eachIdx].name,
                                                      0, w.deletionVersions[w.delIdx])])
     /\ sweep' = [sweep EXCEPT ![s] = AfterDeleteFailure(w, s, e)]
     /\ hook' = Settle(hook, sweep')
     /\ UNCHANGED <<options, custom, pluginCustom, remote,
                    selVersions, selAliases, selResult, selDone>>

(***************************************************************************)
(* The runs of the plugin against the remote service.                      *)
(***************************************************************************)
NoCustom == [present |-> FALSE, number |-> Undefined, automatic |-> Undefined,
             includeLayers |-> Undefined]

\* custom.prune with the number n
CustomNumber(n) == [present |-> TRUE, number |-> n, automatic |-> Undefined,
                    includeLayers |-> Undefined]

\* the values of the number option: none, a number (as the tests give it) or
\* a string (as the command line gives it)
NumberOptions ==
  {Undefined} \cup {Num(n) : n \in 0..MaxKeep} \cup {Str(toString(n)) : n \in 0..MaxKeep}

\* where the runs take the number of versions to keep from: the command
\* line, serverless.yml, or neither
KeepSources ==
  { [number |-> Str(toString(MaxKeep)), custom |-> NoCustom],
    [number |-> Undefined, custom |-> CustomNumber(Num(0))],
    [number |-> Undefined, custom |-> NoCustom] }

\* the options of the runs: one function or all of them, one layer or all of
\* them; the two sweeps are run together on one function and one layer
OptionValues ==
  {o \in [number : NumberOptions,
          function : {"", "FunctionA"},
          layer : {"", "LayerB"},
          includeLayers : BOOLEAN,
          dryRun : BOOLEAN,
          noDeploy : {Undefined}] :
     o.includeLayers => (o.function # "" /\ o.layer # "")}

Init ==
  /\ \E k \in KeepSources :
       /\ options \in {o \in OptionValues : o.number = k.number}
       /\ custom = k.custom
  /\ pluginCustom = loadCustom(custom)
  /\ remote = [r \in Resources |-> Unobserved]
  /\ sweep = [s \in Sweeps |-> IdleSweep]
  /\ hook = NoHook
  /\ faults = <<>>
  /\ selVersions = <<>>
  /\ selAliases = <<>>
  /\ selResult = <<>>
  /\ selDone = "none"

Next ==
  \/ cliPrune
  \/ pruneLayers
  \/ \E s \in Sweeps, k \in {"versions", "aliases"} : ListRespond(s, k)
  \/ \E s \in Sweeps, k \in {"versions", "aliases"}, e \in ListErrors : ListFail(s, k, e)
  \/ \E s \in Sweeps : DeleteRespond(s)
  \/ \E s \in Sweeps, e \in DeleteErrors : DeleteFail(s, e)

Spec == Init /\ [][Next]_vars

\* the runs in which a number of versions to keep is given, on the command
\* line or in serverless.yml
GivenKeepSources == {k \in KeepSources : k.number # Undefined \/ k.custom # NoCustom}

InitKeep ==
  /\ \E k \in GivenKeepSources :
       /\ options \in {o \in OptionValues : o.number = k.number}
       /\ custom = k.custom
  /\ pluginCustom = loadCustom(custom)
  /\ remote = [r \in Resources |-> Unobserved]
  /\ sweep = [s \in Sweeps |-> IdleSweep]
  /\ hook = NoHook
  /\ faults = <<>>
  /\ selVersions = <<>>
  /\ selAliases = <<>>
  /\ selResult = <<>>
  /\ selDone = "none"

SpecKeep == InitKeep /\ [][Next]_vars

(***************************************************************************)
(* The runs of postDeploy against the remote service.                      *)
(***************************************************************************)
\* the values of custom.prune.number: none, a number, a string of digits, a
\* string that is no number
DeployNumbers ==
  {Undefined, Str(<<"a">>)} \cup {Num(n) : n \in (0 - 1)..MaxKeep}
    \cup {Str(toString(n)) : n \in 0..MaxKeep}

\* the values of a flag of custom.prune: none, a boolean, a string
DeployFlags == {Undefined, Bool(TRUE), Bool(FALSE), Str(<<"t", "r", "u", "e">>)}

\* serverless.service.custom of the runs of postDeploy
DeployCustoms ==
  {NoCustom} \cup
  [present : {TRUE}, number : DeployNumbers, automatic : DeployFlags,
   includeLayers : DeployFlags]

\* the options of the runs of postDeploy: they target one function and one
\* layer
DeployOptions ==
  [number : {Undefined},
   function : {"FunctionA"},
   layer : {"LayerB"},
   includeLayers : BOOLEAN,
   dryRun : {FALSE},
   noDeploy : {Undefined, Bool(TRUE), Bool(FALSE)}]

InitDeploy ==
  /\ custom \in DeployCustoms
  /\ options \in DeployOptions
  /\ pluginCustom = loadCustom(custom)
  /\ remote = [r \in Resources |-> Unobserved]
  /\ sweep = [s \in Sweeps |-> IdleSweep]
  /\ hook = NoHook
  /\ faults = <<>>
  /\ selVersions = <<>>
  /\ selAliases = <<>>
  /\ selResult = <<>>
  /\ selDone = "none"

NextDeploy ==
  \/ postDeploy
  \/ \E s \in Sweeps, k \in {"versions", "aliases"} : ListRespond(s, k)
  \/ \E s \in Sweeps, k \in {"versions", "aliases"}, e \in ListErrors : ListFail(s, k, e)
  \/ \E s \in Sweeps : DeleteRespond(s)
  \/ \E s \in Sweeps, e \in DeleteErrors : DeleteFail(s, e)

SpecDeploy == InitDeploy /\ [][NextDeploy]_vars

(***************************************************************************)
(* Two runs of the command one after the other: when the first run has     *)
(* ended, a new process loads the plugin and runs the command with the     *)
(* same options against the same remote service.                           *)
(***************************************************************************)
\* the sources of the number to keep of the repeated runs: the option, the
\* custom configuration with 0 and with a negative number
AgainKeepSources ==
  { [number |-> Str(toString(MaxKeep)), custom |-> NoCustom],
    [number |-> Undefined, custom |-> CustomNumber(Num(0))],
    [number |-> Undefined, custom |-> CustomNumber(Num(0 - 1))] }

\* the options of the repeated runs: one function and one layer
AgainOptions ==
  [number : NumberOptions,
   function : {"FunctionA"},
   layer : {"LayerB"},
   includeLayers : {FALSE},
   dryRun : BOOLEAN,
   noDeploy : {Undefined}]

InitAgain ==
  /\ \E k \in AgainKeepSources :
       /\ options \in {o \in AgainOptions : o.number = k.number}
       /\ custom = k.custom
  /\ pluginCustom = loadCustom(custom)
  /\ remote = [r \in Resources |-> Unobserved]
  /\ sweep = [s \in Sweeps |-> IdleSweep]
  /\ hook = NoHook
  /\ faults = <<>>
  /\ selVersions = <<>>
  /\ selAliases = <<>>
  /\ selResult = <<>>
  /\ selDone = "none"

\* the first run has ended and no request of it is in flight; a new process
\* constructs the plugin: no sweep has run in it and no hook is called yet
Again ==
  /\ hook.state \in {"resolved", "rejected"}
  /\ hook.previous.entry = "none"
  /\ \A s \in Sweeps : /\ sweep[s].phase # "deleting"
                        /\ sweep[s].versions.st # "pending"
                        /\ sweep[s].aliases.st # "pending"
  /\ hook' = [NoHook EXCEPT !.previous.entry = hook.entry, !.previous.state = hook.state]
  /\ sweep' = [s \in Sweeps |-> IdleSweep]
  /\ UNCHANGED <<options, custom, pluginCustom, remote, faults,
                 selVersions, selAliases, selResult, selDone>>

NextAgain ==
  \/ cliPrune
  \/ pruneLayers
  \/ Again
  \/ \E s \in Sweeps, k \in {"versions", "aliases"} : ListRespond(s, k)
  \/ \E s \in Sweeps, k \in {"versions", "aliases"}, e \in ListErrors : ListFail(s, k, e)
  \/ \E s \in Sweeps : DeleteRespond(s)
  \/ \E s \in Sweeps, e \in DeleteErrors : DeleteFail(s, e)

SpecAgain == InitAgain /\ [][NextAgain]_vars

(***************************************************************************)
(* A dry run and then the same command for real: when the dry run has      *)
(* ended, a new process loads the plugin and runs the command with the     *)
(* same options but dryRun against the same remote service.                *)
(***************************************************************************)
\* the options of the dry runs: one function, and one layer or all of them
DryOptions ==
  [number : NumberOptions,
   function : {"FunctionA"},
   layer : {"", "LayerB"},
   includeLayers : {FALSE},
   dryRun : {TRUE},
   noDeploy : {Undefined}]

InitDry ==
  /\ \E k \in GivenKeepSources :
       /\ options \in {o \in DryOptions : o.number = k.number}
       /\ custom = k.custom
  /\ pluginCustom = loadCustom(custom)
  /\ remote = [r \in Resources |-> Unobserved]
  /\ sweep = [s \in Sweeps |-> IdleSweep]
  /\ hook = NoHook
  /\ faults = <<>>
  /\ selVersions = <<>>
  /\ selAliases = <<>>
  /\ selResult = <<>>
  /\ selDone = "none"

\* the dry run has ended and no request of it is in flight; a new process
\* constructs the plugin, with the same options but dryRun
ForReal ==
  /\ options.dryRun
  /\ hook.state \in {"resolved", "rejected"}
  /\ \A s \in Sweeps : /\ sweep[s].versions.st # "pending"
                        /\ sweep[s].aliases.st # "pending"
  /\ options' = [options EXCEPT !.dryRun = FALSE]
  /\ hook' = [NoHook EXCEPT !.previous =
                [entry |-> hook.entry, state |-> hook.state,
                 dry |-> [s \in Sweeps |-> [issued |-> sweep[s].issued,
                                            selections |-> sweep[s].selections]]]]
  /\ sweep' = [s \in Sweeps |-> IdleSweep]
  /\ UNCHANGED <<custom, pluginCustom, remote, faults,
                 selVersions, selAliases, selResult, selDone>>

NextDry ==
  \/ cliPrune
  \/ pruneLayers
  \/ ForReal
  \/ \E s \in Sweeps, k \in {"versions", "aliases"} : ListRespond(s, k)
  \/ \E s \in Sweeps, k \in {"versions", "aliases"}, e \in ListErrors : ListFail(s, k, e)
  \/ \E s \in Sweeps : DeleteRespond(s)
  \/ \E s \in Sweeps, e \in DeleteErrors : DeleteFail(s, e)

SpecDry == InitDry /\ [][NextDry]_vars

(***************************************************************************)
(* The selectors on their own, applied to listings in every order.         *)
(***************************************************************************)
\* the version ids a listing may hold
ListedIds == {PublishedIds(FirstVersion, MaxListed)[i] : i \in 1..MaxListed} \cup {LATEST}

\* the sequences that hold the elements of a set T, each once, in any order
Orderings(T) ==
  {q \in [1..Cardinality(T) -> T] : \A i, j \in 1..Cardinality(T) : q[i] = q[j] => i = j}

\* the version listings: any of the ids, each at most once, in any order
VersionListings ==
  UNION {{Map(q, LAMBDA v : [Version |-> v]) : q \in Orderings(T)} : T \in SUBSET ListedIds}

\* the alias listings: aliases on any of the ids
AliasListings ==
  {Map(SeqOf(T, PublishedIds(FirstVersion, MaxListed) \o <<LATEST>>),
       LAMBDA v : [FunctionVersion |-> v]) : T \in SUBSET ListedIds}

\* the values of custom.prune.number in serverless.yml
CustomNumbers == {NoCustom} \cup {CustomNumber(Num(n)) : n \in (0 - 1)..MaxKeep}

InitSelect ==
  /\ options \in [number : NumberOptions, function : {""}, layer : {""},
                   includeLayers : {FALSE}, dryRun : {FALSE}, noDeploy : {Undefined}]
  /\ custom \in CustomNumbers
  /\ pluginCustom = loadCustom(custom)
  /\ remote = [r \in Resources |-> Unobserved]
  /\ sweep = [s \in Sweeps |-> IdleSweep]
  /\ hook = NoHook
  /\ faults = <<>>
  /\ selVersions \in VersionListings
  /\ selAliases \in AliasListings
  /\ selResult = <<>>
  /\ selDone = "none"

(***************************************************************************)
(* A call of a selector on the arrays of its caller.  Arrays are objects:  *)
(* the arrays of a call are the elements of a sequence, the first ones     *)
(* being the arguments.  map, filter and slice make a new array and leave  *)
(* the one they are called on as it is; sort sorts the array it is called  *)
(* on in place.  The call gives the arguments as they are after it and     *)
(* the array it returns.                                                   *)
(***************************************************************************)
\* a call that sorts the version listing it is given by version, in place
callSortingVersions(versions, aliases) ==
  LET sorted == sort(Map(versions, LAMBDA f : f.Version))
  IN [versions |-> Map(sorted, LAMBDA v : [Version |-> v]),
      aliases |-> aliases,
      result |-> selectPruneVersionsForFunction(versions, aliases)]

\* selectPruneVersionsForFunction(versions, aliases), called on two arrays
callSelectPruneVersionsForFunction(versions, aliases) ==
  LET a0 == <<versions, aliases>>
      \* 3: aliasedVersion = aliases.map(...)
      a1 == Append(a0, Map(a0[2], LAMBDA a : a.FunctionVersion))
      \* 4: versions.map(...)
      a2 == Append(a1, Map(a1[1], LAMBDA f : f.Version))
      \* 5, 6: .filter(...).filter(...)
      a3 == Append(a2, SelectSeq(a2[4], LAMBDA v : v # LATEST))
      a4 == Append(a3, SelectSeq(a3[5], LAMBDA v : NotIn(a3[3], v)))
      \* .sort(...) sorts array 6
      a5 == [a4 EXCEPT ![6] = sort(a4[6])]
      \* 7: .slice(this.getNumber())
      a6 == Append(a5, slice(a5[6], getNumber))
  IN [versions |-> a6[1], aliases |-> a6[2], result |-> a6[7]]

\* selectPruneVersionsForLayer(versions), called on an array
callSelectPruneVersionsForLayer(versions) ==
  LET a0 == <<versions>>
      \* 2: versions.map(...)
      a1 == Append(a0, Map(a0[1], LAMBDA f : f.Version))
      \* .sort(...) sorts array 2
      a2 == [a1 EXCEPT ![2] = sort(a1[2])]
      \* 3: .slice(this.getNumber())
      a3 == Append(a2, slice(a2[2], getNumber))
  IN [versions |-> a3[1], result |-> a3[3]]

\* selectPruneVersionsForFunction is called on the listings, a first time or
\* once more
ApplyFunctionSelector ==
  /\ selDone \in {"none", "function"}
  /\ \E call \in {callSelectPruneVersionsForFunction(selVersions, selAliases)} :
       /\ selVersions' = call.versions
       /\ selAliases' = call.aliases
       /\ selResult' = call.result
  /\ selDone' = "function"
  /\ UNCHANGED <<options, custom, pluginCustom, remote, sweep, hook, faults>>

\* selectPruneVersionsForLayer is called on the version listing, a first time
\* or once more, when it is one of a layer: a layer has no $LATEST
ApplyLayerSelector ==
  /\ selDone \in {"none", "layer"}
  /\ \A i \in 1..Len(selVersions) : selVersions[i].Version # LATEST
  /\ \E call \in {callSelectPruneVersionsForLayer(selVersions)} :
       /\ selVersions' = call.versions
       /\ selResult' = call.result
  /\ selDone' = "layer"
  /\ UNCHANGED <<options, custom, pluginCustom, remote, sweep, hook, faults, selAliases>>

NextSelect == ApplyFunctionSelector \/ ApplyLayerSelector

SpecSelect == InitSelect /\ [][NextSelect]_vars

(***************************************************************************)
(* Properties.                                                             *)
(***************************************************************************)
SetOf(q) == {q[i] : i \in 1..Len(q)}

\* the number of versions to keep: what slice makes of getNumber()
Keep == ToIntegerOrInfinity(getNumber)

\* a number of versions to keep is given, and it is not negative
KeepGiven == getNumber.t # "undefined" /\ Keep >= 0

\* the version ids of a version listing and the ids an alias listing points to
VersionIds(versions) == {versions[i].Version : i \in 1..Len(versions)}
AliasedIds(aliases) == {aliases[i].FunctionVersion : i \in 1..Len(aliases)}

\* the eligible versions of a function: listed, not $LATEST and not aliased
Eligible(versions, aliases) == (VersionIds(versions) \ {LATEST}) \ AliasedIds(aliases)

\* the versions of E that have at least n versions of E numbered above them
AllButHighest(E, n) ==
  {v \in E : Cardinality({u \in E : parseInt(u) > parseInt(v)}) >= n}

\* the deletion requests a sweep has issued
DeleteRequests(w) ==
  SelectSeq(w.issued, LAMBDA r : r.action \in {"deleteFunction", "deleteLayerVersion"})

\* the versions a sweep has requested to delete of the resource name, in order
DeleteRequested(w, name) ==
  Map(SelectSeq(DeleteRequests(w), LAMBDA r : r.name = name), LAMBDA r : r.version)

\* C1: alias immunity.  Whatever the listings and the number to keep (0
\* included), no version selectPruneVersionsForFunction returns in a function
\* sweep is the FunctionVersion of a listed alias, and no deleteFunction
\* request of the sweep has an aliased version as its Qualifier.
C1_AliasImmunity ==
  LET w == sweep["functions"]
  IN /\ \A i \in 1..Len(w.selections) :
          SetOf(w.selections[i].candidates) \cap AliasedIds(w.selections[i].aliases) = {}
     /\ \A i \in 1..Len(w.results) :
          SetOf(DeleteRequested(w, w.results[i].name)) \cap AliasedIds(w.results[i].aliases) = {}

\* a function sweep that keeps no version has listed an aliased version and
\* requested the deletion of another version of the same function
C1_Witness ==
  LET w == sweep["functions"]
  IN /\ Keep = 0
     /\ \E i \in 1..Len(w.results) :
          /\ AliasedIds(w.results[i].aliases) \cap VersionIds(w.results[i].versions) # {}
          /\ DeleteRequested(w, w.results[i].name) # <<>>

\* C2: $LATEST immunity.  Whatever the listings and the number to keep,
\* $LATEST is not among the versions selectPruneVersionsForFunction returns in
\* a function sweep, and no deleteFunction request has the Qualifier $LATEST.
C2_LatestImmunity ==
  LET w == sweep["functions"]
  IN /\ \A i \in 1..Len(w.selections) : LATEST \notin SetOf(w.selections[i].candidates)
     /\ \A i \in 1..Len(w.issued) :
          w.issued[i].action = "deleteFunction" => w.issued[i].version # LATEST

\* a function sweep that keeps no version has resolved after it deleted every
\* published version of a function whose listing held $LATEST
C2_Witness ==
  LET w == sweep["functions"]
  IN /\ Keep = 0
     /\ w.phase = "resolved"
     /\ \E i \in 1..Len(w.results) :
          /\ LATEST \in VersionIds(w.results[i].versions)
          /\ Len(DeleteRequested(w, w.results[i].name)) = MaxVersions

\* C3: dry-run no-op.  With options.dryRun set, no sweep issues a
\* deleteFunction or deleteLayerVersion request, whatever cliPrune or
\* pruneLayers started and whatever the remote service answered.
C3_DryRunNoDelete ==
  options.dryRun => \A s \in Sweeps : DeleteRequests(sweep[s]) = <<>>

\* a dry run of the two sweeps has resolved, each having selected versions to
\* delete
C3_Witness ==
  /\ options.dryRun
  /\ hook.kind = "all"
  /\ hook.state = "resolved"
  /\ \A s \in Sweeps :
       \E i \in 1..Len(sweep[s].selections) : sweep[s].selections[i].candidates # <<>>

\* C4: keep semantics.  For a number to keep N >= 0 and a listing with E
\* eligible versions (listed, not $LATEST, not aliased),
\* selectPruneVersionsForFunction returns max(0, E - N) versions, each once:
\* the eligible versions that are not among the N highest-numbered ones.
C4_KeepSemantics ==
  (selDone = "function" /\ KeepGiven) =>
    LET E == Eligible(selVersions, selAliases)
    IN /\ Len(selResult) = (IF Cardinality(E) > Keep THEN Cardinality(E) - Keep ELSE 0)
       /\ Cardinality(SetOf(selResult)) = Len(selResult)
       /\ SetOf(selResult) = AllButHighest(E, Keep)

\* selectPruneVersionsForFunction has kept one version of a listing with an
\* aliased version, $LATEST and three eligible versions, and returned two
C4_Witness ==
  /\ selDone = "function"
  /\ Keep = 1
  /\ LATEST \in VersionIds(selVersions)
  /\ (AliasedIds(selAliases) \cap VersionIds(selVersions)) \ {LATEST} # {}
  /\ Cardinality(Eligible(selVersions, selAliases)) = MaxListed - 1
  /\ Len(selResult) = MaxListed - 2

\* C5: numeric ordering.  The selectors rank the version ids by their integer
\* value: every eligible version a selector does not return is numbered above
\* every version it returns, and the versions it returns are in strictly
\* descending numeric order.
C5_NumericOrdering ==
  (selDone # "none" /\ KeepGiven) =>
    LET E == IF selDone = "function" THEN Eligible(selVersions, selAliases)
             ELSE VersionIds(selVersions)
    IN /\ \A k \in E \ SetOf(selResult) :
            \A i \in 1..Len(selResult) : parseInt(k) > parseInt(selResult[i])
       /\ \A i, j \in 1..Len(selResult) :
            i < j => parseInt(selResult[i]) > parseInt(selResult[j])

\* a selector has kept one version and returned two, the first with a longer
\* id than the second
C5_Witness ==
  /\ selDone # "none"
  /\ Keep = 1
  /\ Len(selResult) = 2
  /\ Len(selResult[1]) > Len(selResult[2])
  /\ \E v \in VersionIds(selVersions) \ SetOf(selResult) : v # LATEST

OnlyNotFound ==
  \A i \in 1..Len(faults) :
    /\ faults[i].error = NotFound
    /\ faults[i].request.action \notin {"deleteFunction", "deleteLayerVersion"}

\* the listing request of sweep s for the versions of name was answered not-found
VersionsNotFound(s, name) ==
  \/ remote[name].observed /\ ~remote[name].deployed
  \/ \E i \in 1..Len(faults) :
       /\ faults[i].sweep = s /\ faults[i].error = NotFound
       /\ faults[i].request.name = name
       /\ faults[i].request.action \in {"listVersionsByFunction", "listLayerVersions"}

\* C7: not deployed.  When the listing of a resource is answered not-found
\* (status 404) the lister yields the empty sequence, the sweep issues no
\* deletion request for the resource and does not reject, and it goes on: it
\* lists every targeted resource, and when it resolves it has selected and
\* (unless this is a dry run) requested to delete the versions of the others.
C7_NotDeployed ==
  \A s \in Sweeps :
    LET w == sweep[s]
    IN /\ \A i \in 1..Len(w.results) :
            VersionsNotFound(s, w.results[i].name) =>
              /\ w.results[i].versions = <<>>
              /\ DeleteRequested(w, w.results[i].name) = <<>>
       /\ \A i \in 1..Len(w.results) :
            ~remote[w.results[i].name].deployed => w.results[i].aliases = <<>>
       /\ OnlyNotFound => w.phase # "rejected"
       /\ (OnlyNotFound /\ w.phase = "resolved") =>
            /\ Len(w.results) = Len(w.names)
            /\ \A i \in 1..Len(w.results) :
                 (w.results[i].versions # <<>> /\ ~options.dryRun) =>
                   DeleteRequested(w, w.results[i].name) = Select(s, w.results[i])

\* a function sweep has resolved: its first function was not deployed, and it
\* requested to delete versions of its second function
C7_Witness ==
  LET w == sweep["functions"]
  IN /\ w.phase = "resolved"
     /\ Len(w.names) = 2
     /\ remote[w.names[1]].observed /\ ~remote[w.names[1]].deployed
     /\ DeleteRequested(w, w.names[2]) # <<>>

\* the remote service failed deleteFunction requests only, each with the
\* rejection of a replicated function
OnlyReplicatedRejections ==
  /\ faults # <<>>
  /\ \A i \in 1..Len(faults) :
       /\ faults[i].request.action = "deleteFunction"
       /\ faults[i].error = ReplicatedRejection

\* C8: tolerated replicated-function rejection.  When deleteFunction requests
\* fail with status 400 and the replicated-function message, each such version
\* is skipped (requested once, still held by the remote service), the other
\* versions to delete are requested in order, and the function sweep does not
\* reject: when it resolves, every selected version has been requested.
C8_ReplicatedTolerated ==
  LET w == sweep["functions"]
  IN OnlyReplicatedRejections =>
       /\ w.phase # "rejected"
       /\ \A i \in 1..Len(faults) :
            /\ faults[i].request.version \in SetOf(remote[faults[i].request.name].versions)
            /\ Len(SelectSeq(w.issued, LAMBDA r : r = faults[i].request)) = 1
       /\ w.phase = "deleting" =>
            DeleteRequested(w, w.results[w.eachIdx].name) =
              SubSeq(w.deletionVersions, 1, w.delIdx)
       /\ w.phase = "resolved" =>
            \A i \in 1..Len(w.results) :
              w.results[i].versions # <<>> =>
                DeleteRequested(w, w.results[i].name) = Select("functions", w.results[i])

\* a function sweep has resolved after the deletion of the first of two
\* versions of a function was rejected as that of a replicated function
C8_Witness ==
  LET w == sweep["functions"]
  IN /\ w.phase = "resolved"
     /\ OnlyReplicatedRejections
     /\ Len(DeleteRequested(w, faults[1].request.name)) = 2
     /\ DeleteRequested(w, faults[1].request.name)[1] = faults[1].request.version

\* C9: fatal delete failure.  When a deleteFunction request fails with another
\* error than the rejection of a replicated function (status 400 with another
\* message, the message with another status, no providerError), the failed
\* request is the last one the function sweep issues, and the sweep rejects
\* with that error.
C9_FatalDeleteFailure ==
  LET w == sweep["functions"]
  IN \A i \in 1..Len(faults) :
       (faults[i].request.action = "deleteFunction" /\ faults[i].error # ReplicatedRejection) =>
         /\ w.phase = "rejected"
         /\ w.reason = faults[i].error
         /\ w.issued[Len(w.issued)] = faults[i].request

\* a function sweep has rejected after the deletion of the first of two
\* versions failed with status 400 and another message
C9_Witness ==
  LET w == sweep["functions"]
  IN /\ w.phase = "rejected"
     /\ Len(faults) = 1
     /\ faults[1].error = Error(TRUE, 400, <<"Some Error">>)
     /\ faults[1].request.action = "deleteFunction"
     /\ Len(w.deletionVersions) = 2
     /\ w.delIdx = 1

\* C10: independent resources.  When the deletion of a version of one targeted
\* resource fails with an error that is not tolerated, the sweep has, once it
\* has settled, still requested to delete the versions selected for every
\* later resource.
C10_IndependentResources ==
  \A s \in Sweeps :
    LET w == sweep[s]
    IN (w.phase \in {"resolved", "rejected"} /\ ~options.dryRun) =>
         \A i \in 1..Len(faults) :
           (faults[i].sweep = s /\ faults[i].request.action = DeleteAction(s)
              /\ (s = "layers" \/ faults[i].error # ReplicatedRejection)) =>
             \A j \in 1..Len(w.results) :
               (\E k \in 1..(j - 1) : w.results[k].name = faults[i].request.name) =>
                 DeleteRequested(w, w.results[j].name) = Select(s, w.results[j])

\* the chain of a sweep that requests the listing action
ChainOf(w, action) == IF action = "listAliases" THEN w.aliases ELSE w.versions

\* fault i is a listing request failed with another error than not-found
FatalListFault(i) ==
  /\ faults[i].request.action \in {"listVersionsByFunction", "listAliases", "listLayerVersions"}
  /\ ~(faults[i].error.providerError /\ faults[i].error.statusCode = 404)

\* C11: other listing failures propagate.  When a listVersionsByFunction,
\* listAliases or listLayerVersions request fails, on the first page or on a
\* later one, with an error that is no not-found, the lister rejects with that
\* error, and the sweep rejects with the error of the first such failure, as
\* does the promise of the entry point.
C11_ListingFailuresPropagate ==
  \A i \in 1..Len(faults) :
    FatalListFault(i) =>
      LET w == sweep[faults[i].sweep]
          c == ChainOf(w, faults[i].request.action)
          first == CHOOSE j \in 1..Len(faults) :
                     /\ faults[j].sweep = faults[i].sweep /\ FatalListFault(j)
                     /\ \A k \in 1..(j - 1) :
                          ~(faults[k].sweep = faults[i].sweep /\ FatalListFault(k))
      IN /\ c.st = "rejected"
         /\ c.error = faults[i].error
         /\ w.phase = "rejected"
         /\ w.reason = faults[first].error
         /\ hook.state = "rejected"
         /\ DeleteRequests(w) = <<>>

\* a function sweep has rejected with a status 500 error after the request for
\* the second page of a version listing failed with it
C11_Witness ==
  LET w == sweep["functions"]
  IN /\ w.phase = "rejected"
     /\ Len(faults) = 1
     /\ faults[1].request.action = "listVersionsByFunction"
     /\ faults[1].request.marker > 0
     /\ faults[1].error.statusCode = 500
     /\ w.reason = faults[1].error

\* C12: keep precedence.  Whenever options holds a number given on the command
\* line, whatever its value (0 included), getNumber returns it and the
\* selectors keep that many versions; custom.prune.number is used only when
\* options holds no number.
C12_KeepPrecedence ==
  (selDone # "none" /\ options.number.t # "undefined") =>
    LET E == IF selDone = "function" THEN Eligible(selVersions, selAliases)
             ELSE VersionIds(selVersions)
        N == ToIntegerOrInfinity(options.number)
    IN /\ getNumber = options.number
       /\ Len(selResult) = (IF Cardinality(E) > N THEN Cardinality(E) - N ELSE 0)

\* the automatic gate, read off serverless.yml and the options: noDeploy is
\* not true, custom.prune.automatic is the boolean true, and
\* custom.prune.number parses to an integer >= 0
AutomaticGate ==
  /\ options.noDeploy # Bool(TRUE)
  /\ custom.present
  /\ custom.automatic = Bool(TRUE)
  /\ custom.number.t # "undefined"
  /\ parseIntValue(custom.number) # NaN
  /\ parseIntValue(custom.number) >= 0

\* C13: automatic gate.  postDeploy starts the function sweep if and only if
\* options.noDeploy is not true, custom.prune.automatic is the boolean true
\* and custom.prune.number parses to an integer >= 0; in every other case it
\* resolves with no request issued to the remote service.
C13_AutomaticGate ==
  hook.kind # "none" =>
    /\ sweep["functions"].phase # "idle" <=> AutomaticGate
    /\ ~AutomaticGate =>
         /\ hook.state = "resolved"
         /\ \A s \in Sweeps : sweep[s].phase = "idle" /\ sweep[s].issued = <<>>

\* postDeploy with automatic true and the number 0 configured has run a
\* function sweep that deleted versions and resolved
C13_Witness ==
  /\ hook.kind = "functions"
  /\ hook.state = "resolved"
  /\ custom.automatic = Bool(TRUE)
  /\ custom.number = Num(0)
  /\ DeleteRequests(sweep["functions"]) # <<>>

\* C19: automatic layer pruning.  postDeploy starts the layer sweep only when
\* the automatic gate passes and custom.prune.includeLayers is the boolean
\* true (and then it does); with no prune configuration, or with includeLayers
\* given in the command line options only, it never starts it.
C19_AutomaticLayers ==
  hook.kind # "none" =>
    /\ sweep["layers"].phase # "idle" <=>
         (AutomaticGate /\ custom.includeLayers = Bool(TRUE))
    /\ (~custom.present \/ custom.includeLayers # Bool(TRUE)) =>
         sweep["layers"].issued = <<>>

\* postDeploy has run a layer sweep that deleted a layer version, with
\* includeLayers configured in serverless.yml and not given in the options
C19_Witness ==
  /\ hook.kind = "all"
  /\ custom.includeLayers = Bool(TRUE)
  /\ ~options.includeLayers
  /\ sweep["layers"].phase = "resolved"
  /\ DeleteRequests(sweep["layers"]) # <<>>

\* C14: missing keep.  When neither the options nor serverless.yml give a
\* number of versions to keep, a prune started from the command hook issues no
\* request to the remote service: no listing request and no deletion request.
C14_MissingKeep ==
  (hook.kind # "none" /\ getNumber.t = "undefined") =>
    \A s \in Sweeps : sweep[s].issued = <<>>

\* C15: single-target filter.  With options.function given, every request of
\* the function sweep, listing or deletion, names the deployed name of that
\* function and no other; with options.layer given, every request of the
\* layer sweep names the deployed name of that layer.
C15_SingleTarget ==
  /\ options.function # "" =>
       \A i \in 1..Len(sweep["functions"].issued) :
         sweep["functions"].issued[i].name = getFunctionName(options.function)
  /\ options.layer # "" =>
       \A i \in 1..Len(sweep["layers"].issued) :
         sweep["layers"].issued[i].name = getLayerName(options.layer)

\* with a function and a layer given in the options, the two sweeps have
\* resolved, each after it requested a deletion
C15_Witness ==
  /\ options.function # "" /\ options.layer # ""
  /\ hook.kind = "all" /\ hook.state = "resolved"
  /\ \A s \in Sweeps : DeleteRequests(sweep[s]) # <<>>

\* C16: deletes match their resource.  Every deletion request of a sweep
\* names a resource the sweep listed, and its version is one that the listing
\* of that very resource held and that was selected for it; a resource for
\* which no version is selected gets no deletion request.
C16_DeletesMatchResource ==
  \A s \in Sweeps :
    LET w == sweep[s]
    IN /\ \A i \in 1..Len(w.issued) :
            w.issued[i].action = DeleteAction(s) =>
              \E j \in 1..Len(w.results) :
                /\ w.results[j].name = w.issued[i].name
                /\ w.issued[i].version \in VersionIds(w.results[j].versions)
                /\ w.issued[i].version \in SetOf(Select(s, w.results[j]))
       /\ \A j \in 1..Len(w.results) :
            Select(s, w.results[j]) = <<>> => DeleteRequested(w, w.results[j].name) = <<>>
       /\ \A i \in 1..Len(w.issued) : w.issued[i].action \in
            {DeleteAction(s), ListAction(s, "versions"), ListAction(s, "aliases")}

\* a sweep over two resources has resolved: the first holds one version more
\* than the second, and only the first got deletion requests, as the second
\* holds versions but none to delete
C16_Witness ==
  \E s \in Sweeps :
    LET w == sweep[s]
    IN /\ w.phase = "resolved" /\ Len(w.results) = 2
       /\ Len(w.results[1].versions) = Len(w.results[2].versions) + 1
       /\ w.results[2].versions # <<>>
       /\ Select(s, w.results[2]) = <<>>
       /\ DeleteRequested(w, w.results[1].name) # <<>>
       /\ DeleteRequested(w, w.results[2].name) = <<>>

\* sweep s has been started
Ran(s) == sweep[s].calls > 0

\* C17 as stated: cliPrune runs the function sweep in every invocation, and
\* the layer sweep too when includeLayers or a layer is given in the options.
C17_DispatchAsStated ==
  hook.entry = "cliPrune" =>
    /\ Ran("functions")
    /\ (options.includeLayers \/ options.layer # "") => Ran("layers")

\* C17: interactive dispatch.  cliPrune runs both sweeps when includeLayers is
\* given; otherwise it runs the layer sweep alone when a layer and no function
\* is given in the options, and the function sweep alone in every other case.
C17_InteractiveDispatch ==
  hook.entry = "cliPrune" =>
    LET layerOnly == options.layer # "" /\ options.function = ""
    IN /\ Ran("functions") <=> (options.includeLayers \/ ~layerOnly)
       /\ Ran("layers") <=> (options.includeLayers \/ layerOnly)

\* cliPrune with a layer and no function in the options has run the layer
\* sweep, which deleted a version and resolved, and no function sweep
C17_Witness ==
  /\ hook.entry = "cliPrune" /\ hook.state = "resolved"
  /\ options.layer # "" /\ options.function = ""
  /\ DeleteRequests(sweep["layers"]) # <<>>
  /\ sweep["functions"].phase = "idle"

\* C18: interactive dispatch, as the tests state it.  cliPrune with neither
\* includeLayers nor a layer in the options calls pruneFunctions once and
\* pruneLayers never; with includeLayers it calls each of them once.
C18_DispatchCalls ==
  hook.entry = "cliPrune" =>
    /\ (~options.includeLayers /\ options.layer = "") =>
         (sweep["functions"].calls = 1 /\ sweep["layers"].calls = 0)
    /\ options.includeLayers =>
         (sweep["functions"].calls = 1 /\ sweep["layers"].calls = 1)

\* cliPrune with includeLayers has resolved after the function sweep and the
\* layer sweep each listed their resource
C18_Witness ==
  /\ hook.entry = "cliPrune" /\ hook.state = "resolved"
  /\ options.includeLayers
  /\ \A s \in Sweeps : sweep[s].calls = 1 /\ sweep[s].results # <<>>

\* the markers of the requests a sweep issued for the listing action of name
Markers(w, action, name) ==
  Map(SelectSeq(w.issued, LAMBDA r : r.action = action /\ r.name = name),
      LAMBDA r : r.marker)

\* a request of sweep s for the listing action of name was answered not-found
ListNotFound(s, action, name, fs) ==
  \E i \in 1..Len(fs) :
    /\ fs[i].sweep = s /\ fs[i].request.action = action /\ fs[i].request.name = name
    /\ fs[i].error.providerError /\ fs[i].error.statusCode = 404

\* what a lister returns for a resource in state st: all the items of the
\* listing, in order, or nothing when the resource was found not deployed
WholeListing(s, action, name, st, fs) ==
  IF st.deployed /\ ~ListNotFound(s, action, name, fs) THEN Listed(action, st) ELSE <<>>

\* the requests of a sweep for one listing follow the pages: the first has no
\* marker, each next one the marker the page before returned
PagesFollowed ==
  \A s \in Sweeps, name \in Resources :
    \A action \in {"listVersionsByFunction", "listAliases", "listLayerVersions"} :
      LET ms == Markers(sweep[s], action, name)
      IN \A i \in 1..Len(ms) : ms[i] = (i - 1) * PageSize

\* every selection of a sweep was made on the listings of a result of the sweep
SelectionsOnResults ==
  \A s \in Sweeps :
    \A i \in 1..Len(sweep[s].selections) :
      \E j \in 1..Len(sweep[s].results) :
        /\ sweep[s].results[j].name = sweep[s].selections[i].name
        /\ sweep[s].results[j].versions = sweep[s].selections[i].versions
        /\ sweep[s].results[j].aliases = sweep[s].selections[i].aliases

\* the result a sweep gains in a step holds the whole listings of its resource
ResultsWhole ==
  \A s \in Sweeps :
    Len(sweep'[s].results) = Len(sweep[s].results) + 1 =>
      LET r == sweep'[s].results[Len(sweep'[s].results)]
          st == remote'[r.name]
      IN /\ r.versions = WholeListing(s, ListAction(s, "versions"), r.name, st, faults')
         /\ s = "functions" =>
              r.aliases = WholeListing(s, "listAliases", r.name, st, faults')

\* C20: complete pagination.  A lister requests page after page, each with
\* the marker the page before returned, until a page returns none, and what it
\* returns is the items of all pages in page order; the versions of a resource
\* are selected from these whole listings, never from a part of them.
C20_CompletePagination ==
  [](PagesFollowed /\ SelectionsOnResults) /\ [][ResultsWhole]_vars

\* a function sweep has resolved after it listed the versions of a function
\* in three pages and selected from all three versions
C20_Witness ==
  LET w == sweep["functions"]
  IN /\ w.phase = "resolved"
     /\ \E i \in 1..Len(w.selections) :
          /\ Len(w.selections[i].versions) = 3
          /\ Len(Markers(w, "listVersionsByFunction", w.selections[i].name)) = 3

\* the listed versions of the resources of a sweep that the remote service
\* holds no more, each with the position of its resource
Gone(w) ==
  {p \in (1..Len(w.results)) \X UNION {VersionIds(w.results[j].versions) : j \in 1..Len(w.results)} :
     /\ p[2] \in VersionIds(w.results[p[1]].versions)
     /\ p[2] \notin SetOf(remote[w.results[p[1]].name].versions)}

\* the deletion requests of sweep s that the remote service failed
DeleteFaults(s) ==
  {i \in 1..Len(faults) : faults[i].sweep = s /\ faults[i].request.action = DeleteAction(s)}

\* the number of deletion requests of sweep s that are issued and not yet
\* answered
OutstandingDeletes(s) ==
  Len(DeleteRequests(sweep[s])) - Cardinality(Gone(sweep[s])) - Cardinality(DeleteFaults(s))

\* C21: sequential deletes.  The deletion loops request the versions they are
\* given one by one and in the order given: at most one deletion request of a
\* sweep is not yet answered, the requests issued for the resource being
\* deleted are the first versions of its selection, each once, a resource
\* whose deletions are done with none failed got one request per selected
\* version in order, and a resource with an empty selection got none.
C21_SequentialDeletes ==
  \A s \in Sweeps :
    LET w == sweep[s]
    IN /\ OutstandingDeletes(s) = (IF w.phase = "deleting" THEN 1 ELSE 0)
       /\ w.phase = "deleting" =>
            DeleteRequested(w, w.results[w.eachIdx].name) =
              SubSeq(w.deletionVersions, 1, w.delIdx)
       /\ \A j \in 1..Len(w.results) :
            /\ (DeleteFaults(s) = {} /\ ~options.dryRun /\ w.results[j].versions # <<>>
                  /\ (w.phase = "resolved" \/ (w.phase = "deleting" /\ j < w.eachIdx))) =>
                 DeleteRequested(w, w.results[j].name) = Select(s, w.results[j])
            /\ Select(s, w.results[j]) = <<>> =>
                 DeleteRequested(w, w.results[j].name) = <<>>

\* a layer sweep is deleting the second of two selected versions of a layer:
\* the first is deleted, the second requested and not yet answered
C21_Witness ==
  LET w == sweep["layers"]
  IN /\ w.phase = "deleting"
     /\ Len(w.deletionVersions) = 2
     /\ w.delIdx = 2
     /\ faults = <<>>
     /\ Cardinality(Gone(w)) = 1
     /\ Len(DeleteRequests(w)) = 2

\* the run before this one was the same command, no dry run, and it resolved
SameRunResolved ==
  /\ hook.entry = hook.previous.entry
  /\ hook.entry # "none"
  /\ hook.previous.state = "resolved"
  /\ ~options.dryRun

\* no sweep of this run selected a version or requested a deletion
NothingToPrune ==
  \A s \in Sweeps :
    /\ \A i \in 1..Len(sweep[s].selections) : sweep[s].selections[i].candidates = <<>>
    /\ DeleteRequests(sweep[s]) = <<>>

Excess(m, n) == IF m > n THEN m - n ELSE 0

\* C23: layer selection.  For a number to keep N >= 0,
\* selectPruneVersionsForLayer returns of a listing of M layer versions the
\* max(0, M - N) versions that are not among the N highest-numbered ones, and
\* a layer sweep that is no dry run and resolved with none of its requests
\* failed has requested the deletion of exactly these versions of each layer;
\* the remote service is left with the N highest-numbered ones.
C23_LayerSelection ==
  LET w == sweep["layers"]
  IN KeepGiven =>
       /\ \A i \in 1..Len(w.selections) :
            LET sel == w.selections[i]
            IN /\ SetOf(sel.candidates) = AllButHighest(VersionIds(sel.versions), Keep)
               /\ Len(sel.candidates) = Excess(Len(sel.versions), Keep)
       /\ (w.phase = "resolved" /\ ~options.dryRun
             /\ \A i \in 1..Len(faults) : faults[i].sweep # "layers") =>
            \A j \in 1..Len(w.results) :
              LET V == VersionIds(w.results[j].versions)
                  requested == DeleteRequested(w, w.results[j].name)
              IN /\ SetOf(requested) = AllButHighest(V, Keep)
                 /\ Len(requested) = Excess(Len(w.results[j].versions), Keep)
                 /\ SetOf(remote[w.results[j].name].versions) = V \ AllButHighest(V, Keep)

\* a layer sweep that keeps one version has resolved with no request failed:
\* of a layer with two listed versions it deleted the lower-numbered one, and
\* of a layer with as many versions as are kept it deleted none
C23_Witness ==
  LET w == sweep["layers"]
  IN /\ w.phase = "resolved" /\ ~options.dryRun /\ faults = <<>> /\ Keep = 1
     /\ \E i, j \in 1..Len(w.results) :
          /\ Len(w.results[i].versions) = 2
          /\ DeleteRequested(w, w.results[i].name) = <<toString(FirstVersion)>>
          /\ remote[w.results[i].name].versions = <<toString(FirstVersion + 1)>>
          /\ Len(w.results[j].versions) = 1
          /\ DeleteRequested(w, w.results[j].name) = <<>>

\* C24: layer delete failures are always fatal.  When a deleteLayerVersion
\* request fails, whatever the error (the rejection of a replicated function
\* with status 400 included), the failed request is the last one the layer
\* sweep issues: the remaining versions of the layer are not requested to be
\* deleted, and the sweep rejects with that error.
C24_LayerDeleteFatal ==
  LET w == sweep["layers"]
  IN \A i \in 1..Len(faults) :
       faults[i].request.action = "deleteLayerVersion" =>
         /\ w.phase = "rejected"
         /\ w.reason = faults[i].error
         /\ w.issued[Len(w.issued)] = faults[i].request
         /\ DeleteRequested(w, faults[i].request.name)
              = SubSeq(w.deletionVersions, 1, w.delIdx)
         /\ w.deletionVersions[w.delIdx] = faults[i].request.version

\* a layer sweep has rejected after the deletion of the first of two versions
\* of a layer failed with the rejection of a replicated function: the second
\* version is not requested
C24_Witness ==
  LET w == sweep["layers"]
  IN /\ w.phase = "rejected"
     /\ Len(faults) = 1
     /\ faults[1].error = ReplicatedRejection
     /\ faults[1].request.action = "deleteLayerVersion"
     /\ Len(w.deletionVersions) = 2
     /\ w.delIdx = 1
     /\ Len(DeleteRequested(w, faults[1].request.name)) = 1

\* sweep s has settled and no request of it is in flight
Quiet(s) ==
  /\ sweep[s].phase \in {"resolved", "rejected"}
  /\ sweep[s].versions.st # "pending"
  /\ sweep[s].aliases.st # "pending"

\* C25: join of the two sweeps.  When cliPrune has started the function sweep
\* and the layer sweep together, the promise it returned is settled only when
\* both sweeps have settled and no request of either is in flight any more
\* (so none is issued after it).
C25_JoinWaitsForBoth ==
  (hook.kind = "all" /\ hook.state \in {"resolved", "rejected"}) =>
    \A s \in Sweeps : Quiet(s)

\* a request of sweep s has failed
Failed(s) == \E i \in 1..Len(faults) : faults[i].sweep = s

\* C26: independent failure domains of the two sweeps.  When cliPrune has
\* started the function sweep and the layer sweep together and a request of
\* one has failed, the other sweep, none of whose requests failed, is not
\* rejected; while it has not resolved one of its requests is in flight, and
\* once it has resolved it has listed every resource it targets and, unless
\* this is a dry run, requested the deletion of every version it selected.
C26_IndependentSweeps ==
  \A s \in Sweeps :
    LET w == sweep[s]
    IN (hook.kind = "all" /\ ~Failed(s)) =>
         /\ w.phase \in {"listing", "deleting", "resolved"}
         /\ w.phase = "listing" =>
              (w.versions.st = "pending" \/ w.aliases.st = "pending")
         /\ w.phase = "deleting" => OutstandingDeletes(s) = 1
         /\ w.phase = "resolved" =>
              /\ Len(w.results) = Len(w.names)
              /\ \A j \in 1..Len(w.results) :
                   /\ w.results[j].name = w.names[j]
                   /\ ~options.dryRun =>
                        DeleteRequested(w, w.results[j].name) = Select(s, w.results[j])

\* cliPrune started the two sweeps together; the function sweep rejected when
\* its version listing failed, and the layer sweep has resolved after that
\* with two versions of its layer deleted
C26_Witness ==
  /\ hook.kind = "all"
  /\ sweep["functions"].phase = "rejected"
  /\ Len(sweep["functions"].issued) = 2
  /\ Len(faults) = 1 /\ faults[1].sweep = "functions"
  /\ sweep["layers"].phase = "resolved"
  /\ Len(DeleteRequests(sweep["layers"])) = 2
  /\ Cardinality(Gone(sweep["layers"])) = 2

\* the place of a resource among the targets of a sweep
Pos(w, name) == CHOOSE i \in 1..Len(w.names) : w.names[i] = name

\* the listing actions
ListActions == {"listVersionsByFunction", "listAliases", "listLayerVersions"}

LastIssued(w, action) ==
  LET rs == SelectSeq(w.issued, LAMBDA r : r.action = action) IN rs[Len(rs)]

\* the requests of sweep s the remote service has not answered yet: the last
\* request of each lister that waits for a page, and the deletion requests
\* whose version is not deleted and that have not failed
OutstandingRequests(s) ==
  LET w == sweep[s]
  IN {LastIssued(w, ListAction(s, k)) : k \in {k \in {"versions", "aliases"} : Chain(w, k).st = "pending"}}
       \cup {r \in SetOf(DeleteRequests(w)) :
               /\ r.version \in SetOf(remote[r.name].versions)
               /\ \A i \in 1..Len(faults) : faults[i].request # r}

\* C28 as stated: no parallelism inside a resource's pipeline.  Within one
\* sweep at most one request for a resource is not yet answered.
C28_OneRequestAsStated ==
  \A s \in Sweeps : Cardinality(OutstandingRequests(s)) <= 1

\* C28, amended: within one sweep at most one request of each action for a
\* resource is not yet answered, and no deletion request while a listing
\* request is; the version listing and the alias listing of a function are
\* requested together and may both be unanswered.
C28_OneRequestPerAction ==
  \A s \in Sweeps :
    /\ \A r1, r2 \in OutstandingRequests(s) : r1.action = r2.action => r1 = r2
    /\ \A r1, r2 \in OutstandingRequests(s) :
         (r1.action \in ListActions) = (r2.action \in ListActions)
    /\ sweep[s].phase = "listing" /\ s = "functions" =>
         LET rs == SelectSeq(sweep[s].issued,
                             LAMBDA r : r.name = sweep[s].names[sweep[s].listIdx])
         IN /\ rs[1].action = "listVersionsByFunction"
            /\ rs[2].action = "listAliases"

\* the version listing and the alias listing of a function both wait for
\* their second page
C28_Witness ==
  LET w == sweep["functions"]
  IN /\ w.phase = "listing"
     /\ w.versions.st = "pending" /\ w.versions.marker = PageSize
     /\ w.aliases.st = "pending" /\ w.aliases.marker = PageSize
     /\ Cardinality(OutstandingRequests("functions")) = 2

\* C29: one resource at a time.  Within one sweep the requests, list or
\* delete, that the remote service has not answered yet all concern one
\* resource.
C29_OneResourceAtATime ==
  \A s \in Sweeps :
    \A r1, r2 \in OutstandingRequests(s) : r1.name = r2.name

\* a function sweep over two functions waits for the deletion of a version of
\* the second function, after it listed both and deleted a version of the first
C29_Witness ==
  LET w == sweep["functions"]
  IN /\ Len(w.names) = 2
     /\ w.phase = "deleting"
     /\ w.eachIdx = 2
     /\ DeleteRequested(w, w.names[1]) # <<>>
     /\ \E r \in OutstandingRequests("functions") : r.name = w.names[2]

\* the results among the first n of a sweep that list at least one version
NonEmptyResults(w, n) ==
  SelectSeq(SubSeq(w.results, 1, n), LAMBDA r : r.versions # <<>>)

\* C30: zero-version short-circuit.  A resource whose version listing is empty
\* is skipped: the sweep makes no selection for it, requests no deletion of
\* it and writes no progress or candidate line for it.  The sweep goes on
\* with the next resource: the selections it has made are those of the
\* results with versions up to the one it is at, and of all the results once
\* it has resolved.
C30_ZeroVersionSkip ==
  \A s \in Sweeps :
    LET w == sweep[s]
        done == IF w.eachIdx > Len(w.results) THEN Len(w.results) ELSE w.eachIdx
    IN /\ \A j \in 1..Len(w.results) :
            w.results[j].versions = <<>> =>
              /\ \A i \in 1..Len(w.selections) : w.selections[i].name # w.results[j].name
              /\ DeleteRequested(w, w.results[j].name) = <<>>
              /\ \A i \in 1..Len(w.log) : w.log[i].name # w.results[j].name
       /\ w.phase \in {"deleting", "resolved"} =>
            Map(w.selections, LAMBDA sel : sel.name)
              = Map(NonEmptyResults(w, done), LAMBDA r : r.name)
       /\ w.phase = "resolved" => done = Len(w.results)

\* a function sweep over two functions has resolved: the first function was
\* not deployed and its listing empty, and a version of the second function was
\* selected, written to the progress line and deleted
C30_Witness ==
  LET w == sweep["functions"]
  IN /\ w.phase = "resolved"
     /\ Len(w.results) = 2
     /\ w.results[1].versions = <<>>
     /\ Len(w.selections) = 1
     /\ w.selections[1].name = w.names[2]
     /\ DeleteRequested(w, w.names[2]) # <<>>
     /\ w.log = <<updateProgress(w.names[2])>>

\* the number of times a sweep has issued the request r
TimesIssued(w, r) == Len(SelectSeq(w.issued, LAMBDA q : q = r))

\* C31: no retry.  A request that failed, list or delete, tolerated or not,
\* was issued once by its sweep in the run, and no sweep issues two deletion
\* requests for the same version of the same resource.
C31_NoRetry ==
  /\ \A i \in 1..Len(faults) : TimesIssued(sweep[faults[i].sweep], faults[i].request) = 1
  /\ \A s \in Sweeps :
       \A i, j \in 1..Len(DeleteRequests(sweep[s])) :
         DeleteRequests(sweep[s])[i] = DeleteRequests(sweep[s])[j] => i = j

\* a function sweep has resolved after the alias listing of a function was
\* answered not-found: the listing was requested once, and the sweep went on
\* to delete two versions of the function, each requested once
C31_Witness ==
  LET w == sweep["functions"]
  IN /\ w.phase = "resolved"
     /\ Len(faults) = 1
     /\ faults[1].sweep = "functions"
     /\ faults[1].error = NotFound
     /\ faults[1].request.action = "listAliases"
     /\ TimesIssued(w, faults[1].request) = 1
     /\ Len(DeleteRequested(w, faults[1].request.name)) = 2

\* what a call of a selector returned is what the selector of the sweeps gives
\* for the listings as they are after the call
SelectedAsCalled ==
  /\ selDone = "function" => selResult = selectPruneVersionsForFunction(selVersions, selAliases)
  /\ selDone = "layer" => selResult = selectPruneVersionsForLayer(selVersions)

\* a step leaves the listings, the sweeps, the remote service and the
\* configuration as they are, and a call once more returns what the call
\* before it returned
SelectorFrame ==
  /\ selVersions' = selVersions
  /\ selAliases' = selAliases
  /\ sweep' = sweep
  /\ remote' = remote
  /\ faults' = faults
  /\ options' = options
  /\ pluginCustom' = pluginCustom
  /\ selDone # "none" => selResult' = selResult

ListRequests(w, action) == SelectSeq(w.issued, LAMBDA r : r.action = action)

\* p is the beginning of q
IsPrefix(p, q) == Len(p) <= Len(q) /\ p = SubSeq(q, 1, Len(p))

\* the command was run as a dry run, which resolved, and is now run for real
\* with the same options, and the remote service has failed no request
DryThenReal ==
  /\ ~options.dryRun
  /\ hook.entry # "none"
  /\ hook.entry = hook.previous.entry
  /\ hook.previous.state = "resolved"
  /\ faults = <<>>

\* C33: a dry run exercises the same decision.  When a command is run as a
\* dry run and then for real with the same options, on the same state of the
\* remote service and with no request failed, the run for real issues for
\* each listing the requests the dry run issued, in the same order, and
\* selects for each resource the versions the dry run selected, in the same
\* order of resources; the dry run issued no deletion request.
C33_DryRunSameDecision ==
  DryThenReal =>
    \A s \in Sweeps :
      LET d == hook.previous.dry[s]
          w == sweep[s]
      IN /\ DeleteRequests(d) = <<>>
         /\ \A a \in ListActions : IsPrefix(ListRequests(w, a), ListRequests(d, a))
         /\ IsPrefix(w.selections, d.selections)
         /\ w.phase \in {"deleting", "resolved"} =>
              \A a \in ListActions : ListRequests(w, a) = ListRequests(d, a)
         /\ w.phase = "resolved" => w.selections = d.selections

\* a dry run of a function sweep selected two versions of a function it listed
\* over several pages, and the run for real has resolved after it listed the
\* same pages and deleted the two versions
C33_Witness ==
  LET d == hook.previous.dry["functions"]
      w == sweep["functions"]
  IN /\ DryThenReal
     /\ w.phase = "resolved"
     /\ Len(d.selections) = 1
     /\ Len(d.selections[1].candidates) = 2
     /\ Len(ListRequests(d, "listVersionsByFunction")) > 2
     /\ DeleteRequests(d) = <<>>
     /\ Len(DeleteRequests(w)) = 2

\* C34: listing precedes all deletion.  When a sweep has issued a deletion
\* request, it has listed every resource it targets, no listing request of it
\* is in flight, and every listing request it issued comes before its first
\* deletion request.  Hence a listing failure that is no not-found, for any
\* resource, leaves the sweep rejected with no deletion request issued, also
\* for the resources it had listed before.
C34_ListingBeforeDeletion ==
  \A s \in Sweeps :
    LET w == sweep[s]
    IN /\ DeleteRequests(w) # <<>> =>
            /\ Len(w.results) = Len(w.names)
            /\ w.versions.st = "fulfilled" /\ w.aliases.st = "fulfilled"
            /\ \A n \in 1..Len(w.names) :
                 \E i \in 1..Len(w.issued) :
                   w.issued[i].action \in ListActions /\ w.issued[i].name = w.names[n]
            /\ \A i, j \in 1..Len(w.issued) :
                 (w.issued[i].action = DeleteAction(s) /\ w.issued[j].action \in ListActions)
                   => j < i
       /\ \A i \in 1..Len(faults) :
            (faults[i].sweep = s /\ FatalListFault(i)) =>
              w.phase = "rejected" /\ DeleteRequests(w) = <<>>

\* a function sweep over two functions that is no dry run has rejected: it
\* had listed its first function, with two versions to delete, when a listing
\* of the second function failed with a status 500 error; it deleted nothing
C34_Witness ==
  LET w == sweep["functions"]
  IN /\ ~options.dryRun
     /\ w.phase = "rejected"
     /\ Len(w.names) = 2
     /\ Len(w.results) = 1
     /\ Len(Select("functions", w.results[1])) = 2
     /\ Len(faults) = 1
     /\ FatalListFault(1)
     /\ faults[1].request.name = w.names[2]
     /\ faults[1].error.statusCode = 500
     /\ DeleteRequests(w) = <<>>

\* the listAliases request of the functions sweep for name was answered
\* not-found
AliasesNotFound(name) ==
  \E i \in 1..Len(faults) :
    /\ faults[i].sweep = "functions" /\ faults[i].error = NotFound
    /\ faults[i].request.action = "listAliases"
    /\ faults[i].request.name = name

====
